---- MODULE Spec2Model ----
(***************************************************************************)
(* Model of src/server.py: a Flask application that loads an XGBoost       *)
(* booster and a SHAP tree explainer once at import time and serves        *)
(*   GET  /         -> home()                                             *)
(*   POST /predict  -> predict()                                          *)
(* Every statement of predict() that can raise is one step of a request,   *)
(* so that requests handled by different workers interleave statement by   *)
(* statement.  pandas, xgboost and shap are modelled by what predict()     *)
(* relies on: how a DataFrame is built from parsed JSON, how columns are   *)
(* added and selected, which frames a DMatrix accepts.  The booster and    *)
(* the attribution algorithm are deterministic functions of a row that     *)
(* the sources do not contain; they are kept as uninterpreted terms.       *)
(***************************************************************************)
EXTENDS Integers, Sequences, FiniteSets, TLC

\* Largest number of elements of a JSON array sent to /predict.
MaxBatch == 2
\* Number of requests that can be in flight at the same time.
NReq == 2

Requests == 1..NReq

VARIABLES
  model,              \* module global `model`: "None" or "Booster"
  explainer,          \* module global `explainer`
  EXPECTED_FEATURES,  \* module global list of the feature names, in order
  pc,                 \* per request: the statement it is about to execute
  route,              \* per request: "/" or "/predict"
  body,               \* per request: the request body
  fault,              \* per request: the library call that raises, if any
  data, df, dtest, scores, shap_vals, base_value, base, explanation,
                      \* per request: the locals of predict()
  exc,                \* per request: the exception caught at line 111
  response            \* per request: the response returned

shared == <<model, explainer, EXPECTED_FEATURES>>
inputs == <<route, body, fault>>
locals == <<data, df, dtest, scores, shap_vals, base_value, base, explanation>>
vars   == <<model, explainer, EXPECTED_FEATURES, pc, route, body, fault,
            data, df, dtest, scores, shap_vals, base_value, base, explanation,
            exc, response>>

-----------------------------------------------------------------------------
\* Startup state

\* The 14 names of lines 36-41, in order.
SelectedFeatures ==
  << "B_11_last", "B_1_last", "B_2_last", "B_2_mean6",
     "B_37_last", "B_7_mean3", "B_9_last", "D_42_mean12",
     "D_64_O_mean3", "P_2_last", "P_2_mean3", "R_1_mean12",
     "R_1_mean3", "S_3_mean6" >>

\* explainer = None (line 18), kept when the model file does not exist.
NoExplainer == [kind |-> "None", expected_value |-> [shape |-> "scalar", items |-> <<>>]]

\* What explainer.expected_value can hold: a scalar, which float() accepts, or
\* a list with one entry per model output (two entries, no entry), which
\* float() rejects.
ExpectedValues ==
  { [shape |-> "scalar", items |-> <<"0.5">>],
    [shape |-> "list",   items |-> <<"0.25", "0.75">>],
    [shape |-> "list",   items |-> <<>>] }

\* shap.TreeExplainer(model), line 28.
TreeExplainer(ev) == [kind |-> "TreeExplainer", expected_value |-> ev]

-----------------------------------------------------------------------------
\* Request bodies

Absent == "absent"
\* Values a key of a JSON object carries: a number, a string that is no number.
JsonValues == {"1", "abc"}
\* Keys that occur in request objects, in the order they are written in an
\* object: one that is no feature name, and the tenth feature name.
KeyOrder == <<"customer_id", "P_2_last">>
KeyPool == {KeyOrder[i] : i \in 1..Len(KeyOrder)}

\* A JSON object: for each key of the pool its value, or Absent.
Records == [KeyPool -> JsonValues \cup {Absent}]

HasKey(rec, k) == k \in DOMAIN rec /\ rec[k] # Absent

JsonObject(rec) == [kind |-> "object", rec |-> rec, v |-> "", items |-> <<>>]
JsonNumber(n)   == [kind |-> "number", rec |-> <<>>, v |-> n, items |-> <<>>]
JsonString(s)   == [kind |-> "string", rec |-> <<>>, v |-> s, items |-> <<>>]
JsonNull        == [kind |-> "null", rec |-> <<>>, v |-> "", items |-> <<>>]
JsonArray(xs)   == [kind |-> "array", rec |-> <<>>, v |-> "", items |-> xs]
\* A body that is not JSON text.
Malformed       == [kind |-> "malformed", rec |-> <<>>, v |-> "", items |-> <<>>]
NoBody          == [kind |-> "none", rec |-> <<>>, v |-> "", items |-> <<>>]

SeqsUpTo(S, n) == UNION {[1..k -> S] : k \in 0..n}

Objects == {JsonObject(rec) : rec \in Records}
Numbers == {JsonNumber("1")}

\* Arrays are arrays of objects or arrays of numbers.
Bodies ==
  {Malformed, JsonNull, JsonNumber("1"), JsonString("abc")}
    \cup Objects
    \cup {JsonArray(xs) : xs \in SeqsUpTo(Objects, MaxBatch)}
    \cup {JsonArray(xs) : xs \in SeqsUpTo(Numbers, MaxBatch)}

\* Library calls of predict() that may raise for reasons of their own.
Faults == {"none", "predict", "shap_values", "jsonify"}

-----------------------------------------------------------------------------
\* pandas, xgboost and shap, as far as predict() uses them

InSeq(x, s) == \E i \in 1..Len(s) : s[i] = x
IndexOf(x, s) == CHOOSE i \in 1..Len(s) : s[i] = x

\* A frame: its column labels in order, and one sequence of cells per row.
Frame(columns, rows) == [columns |-> columns, rows |-> rows]

\* request.get_json() (line 54) raises when the body is not JSON text.
GetJsonRaises(b) == b.kind = "malformed"

\* Lines 57-58: a single object becomes a list of one object.
WrapRecord(d) == IF d.kind = "object" THEN JsonArray(<<d>>) ELSE d

\* pd.DataFrame(data) (line 61) raises ValueError for a scalar.
DataFrameRaises(d) == d.kind \in {"number", "string"}

\* pd.DataFrame(data), line 61.  None gives the empty frame.  A list of
\* objects gives one row per object and one column per key that occurs in any
\* of them, a cell being NaN where the object has no such key.  A list of
\* scalars gives one row per scalar under the single column label 0.
DataFrame(d) ==
  IF d.kind = "null" THEN Frame(<<>>, <<>>)
  ELSE LET xs == d.items
           n  == Len(xs)
       IN IF \A i \in 1..n : xs[i].kind = "object"
          THEN LET Used(k) == \E i \in 1..n : HasKey(xs[i].rec, k)
                   cols    == SelectSeq(KeyOrder, Used)
               IN Frame(cols,
                        [i \in 1..n |->
                          [j \in 1..Len(cols) |->
                            IF HasKey(xs[i].rec, cols[j])
                            THEN xs[i].rec[cols[j]] ELSE "NaN"]])
          ELSE Frame(<<"0">>, [i \in 1..n |-> <<xs[i].v>>])

\* df[col] = 0.0 (line 67): a new last column holding 0.0 in every row.
SetColumn(f, col) ==
  Frame(Append(f.columns, col),
        [i \in 1..Len(f.rows) |-> Append(f.rows[i], "0.0")])

\* Lines 65-67, from the i-th feature name on.
RECURSIVE FillFrom(_, _)
FillFrom(f, i) ==
  IF i > Len(EXPECTED_FEATURES) THEN f
  ELSE FillFrom(IF InSeq(EXPECTED_FEATURES[i], f.columns)
                THEN f ELSE SetColumn(f, EXPECTED_FEATURES[i]),
                i + 1)

FillMissingColumns(f) == FillFrom(f, 1)

\* Variant of SelectColumns: line 69 left out, every column is kept.
SelectColumnsKeepAll(f, cols) == f

\* df[EXPECTED_FEATURES] (line 69): the named columns, in the order named.
SelectColumns(f, cols) ==
  Frame(cols,
        [i \in 1..Len(f.rows) |->
          [j \in 1..Len(cols) |-> f.rows[i][IndexOf(cols[j], f.columns)]]])

\* Conversion of a cell to the float the DMatrix stores.
IsNumeric(c) == c \in {"1", "0.0", "NaN"}
ToFloat(c) == IF c = "1" THEN "1.0" ELSE c

\* xgb.DMatrix(df) (line 72) raises ValueError for a column of dtype object.
DMatrixRaises(f) ==
  \E i \in 1..Len(f.rows) : \E j \in 1..Len(f.columns) : ~IsNumeric(f.rows[i][j])

\* xgb.DMatrix(df), line 72.
DMatrix(f) ==
  Frame(f.columns,
        [i \in 1..Len(f.rows) |->
          [j \in 1..Len(f.columns) |-> ToFloat(f.rows[i][j])]])

\* The booster's score of one row: a function of the row and nothing else.
Score(row) == [booster_output_for |-> row]

\* model.predict(dtest), line 75: one score per row, in row order.
BoosterPredict(m) == [i \in 1..Len(m.rows) |-> Score(m.rows[i])]

\* The attribution of column j for one row.
Attribution(row, j) == [shap_value_for |-> row, column |-> j]

\* explainer.shap_values(dtest), line 78: rows x columns.
ShapValues(m) ==
  [i \in 1..Len(m.rows) |->
    [j \in 1..Len(m.columns) |-> Attribution(m.rows[i], j)]]

\* float(base_value), line 89, raises for a collection.
FloatRaises(ev) == ev.shape # "scalar"
\* float(base_value[0]), line 92, raises for an empty collection.
FirstRaises(ev) == Len(ev.items) = 0

\* Variant of ExplanationOf: the last row's values instead of the first's.
ExplanationOfLastRow(sv) ==
  [i \in 1..Len(EXPECTED_FEATURES) |->
    [feature |-> EXPECTED_FEATURES[i], value |-> sv[Len(sv)][i]]]

\* Lines 94-98: the first row's values, labelled by the feature names.
ExplanationOf(sv) ==
  [i \in 1..Len(EXPECTED_FEATURES) |->
    [feature |-> EXPECTED_FEATURES[i], value |-> sv[1][i]]]

-----------------------------------------------------------------------------
\* Responses

NoResponse == <<>>
NoException == ""
Unbound == <<>>

\* Line 45.
HomeResponse ==
  [code |-> 200,
   text |-> "Credit Default Prediction API is running. Use /predict endpoint."]

\* Line 50.
ModelNotLoaded == [code |-> 500, error |-> "Model not loaded", status |-> "error"]

\* Line 112.
ErrorResponse(e) == [code |-> 400, error |-> e, status |-> "error"]

\* Lines 101-109; base is the local `base` if it is bound.
SuccessResponse(sc, b, expl) ==
  [code |-> 200,
   predictions |-> sc,
   explanation |-> [base_value |-> IF b = Unbound THEN "0" ELSE b[1],
                    values |-> expl],
   status |-> "success"]

-----------------------------------------------------------------------------
\* State after the module has been imported (lines 16-41)

InitRequest ==
  /\ pc = [r \in Requests |-> "idle"]
  /\ route = [r \in Requests |-> ""]
  /\ body = [r \in Requests |-> NoBody]
  /\ fault = [r \in Requests |-> "none"]
  /\ data = [r \in Requests |-> NoBody]
  /\ df = [r \in Requests |-> Unbound]
  /\ dtest = [r \in Requests |-> Unbound]
  /\ scores = [r \in Requests |-> Unbound]
  /\ shap_vals = [r \in Requests |-> Unbound]
  /\ base_value = [r \in Requests |-> Unbound]
  /\ base = [r \in Requests |-> Unbound]
  /\ explanation = [r \in Requests |-> Unbound]
  /\ exc = [r \in Requests |-> NoException]
  /\ response = [r \in Requests |-> NoResponse]

\* Lines 18-32: the model file exists or it does not.
Init ==
  /\ \/ /\ model = "Booster"
        /\ \E ev \in ExpectedValues : explainer = TreeExplainer(ev)
     \/ /\ model = "None"
        /\ explainer = NoExplainer
  /\ EXPECTED_FEATURES = SelectedFeatures
  /\ InitRequest

-----------------------------------------------------------------------------
\* One request

\* An exception raised inside the try block (lines 52-109) transfers control
\* to the handler of line 111.
Raise(r, e) ==
  /\ exc' = [exc EXCEPT ![r] = e]
  /\ pc' = [pc EXCEPT ![r] = "except"]

\* A client sends POST /predict with body b; f names the library call that
\* will raise while the request is served.
Receive(r, B, F) ==
  /\ pc[r] = "idle"
  /\ \E b \in B : \E f \in F :
       /\ body' = [body EXCEPT ![r] = b]
       /\ fault' = [fault EXCEPT ![r] = f]
  /\ route' = [route EXCEPT ![r] = "/predict"]
  /\ pc' = [pc EXCEPT ![r] = "check"]
  /\ UNCHANGED <<shared, locals, exc, response>>

\* GET / (lines 43-45).
Home(r) ==
  /\ pc[r] = "idle"
  /\ route' = [route EXCEPT ![r] = "/"]
  /\ response' = [response EXCEPT ![r] = HomeResponse]
  /\ pc' = [pc EXCEPT ![r] = "done"]
  /\ UNCHANGED <<shared, body, fault, locals, exc>>

\* Variant of CheckModel: no early return when the model is None.
CheckModelIgnored(r) ==
  /\ pc[r] = "check"
  /\ pc' = [pc EXCEPT ![r] = "get_json"]
  /\ UNCHANGED <<shared, inputs, locals, exc, response>>

\* Lines 49-50.
CheckModel(r) ==
  /\ pc[r] = "check"
  /\ IF model = "None"
     THEN /\ response' = [response EXCEPT ![r] = ModelNotLoaded]
          /\ pc' = [pc EXCEPT ![r] = "done"]
     ELSE /\ pc' = [pc EXCEPT ![r] = "get_json"]
          /\ UNCHANGED response
  /\ UNCHANGED <<shared, inputs, locals, exc>>

\* Lines 54-58.
GetJson(r) ==
  /\ pc[r] = "get_json"
  /\ IF GetJsonRaises(body[r])
     THEN /\ Raise(r, "BadRequest")
          /\ UNCHANGED data
     ELSE /\ data' = [data EXCEPT ![r] = WrapRecord(body[r])]
          /\ pc' = [pc EXCEPT ![r] = "frame"]
          /\ UNCHANGED exc
  /\ UNCHANGED <<shared, inputs, df, dtest, scores, shap_vals, base_value,
                 base, explanation, response>>

\* Line 61.
MakeFrame(r) ==
  /\ pc[r] = "frame"
  /\ IF DataFrameRaises(data[r])
     THEN /\ Raise(r, "ValueError: DataFrame constructor not properly called!")
          /\ UNCHANGED df
     ELSE /\ df' = [df EXCEPT ![r] = DataFrame(data[r])]
          /\ pc' = [pc EXCEPT ![r] = "align"]
          /\ UNCHANGED exc
  /\ UNCHANGED <<shared, inputs, data, dtest, scores, shap_vals, base_value,
                 base, explanation, response>>

\* Variant of AlignColumns: columns are filled (lines 65-67) but not selected.
AlignColumnsNoSelect(r) ==
  /\ pc[r] = "align"
  /\ df' = [df EXCEPT ![r] = FillMissingColumns(df[r])]
  /\ pc' = [pc EXCEPT ![r] = "dmatrix"]
  /\ UNCHANGED <<shared, inputs, data, dtest, scores, shap_vals, base_value,
                 base, explanation, exc, response>>

\* Lines 65-69.
AlignColumns(r) ==
  /\ pc[r] = "align"
  /\ df' = [df EXCEPT ![r] =
              SelectColumns(FillMissingColumns(df[r]), EXPECTED_FEATURES)]
  /\ pc' = [pc EXCEPT ![r] = "dmatrix"]
  /\ UNCHANGED <<shared, inputs, data, dtest, scores, shap_vals, base_value,
                 base, explanation, exc, response>>

\* Line 72.
MakeDMatrix(r) ==
  /\ pc[r] = "dmatrix"
  /\ IF DMatrixRaises(df[r])
     THEN /\ Raise(r, "ValueError: DataFrame.dtypes for data must be int, float, bool or category")
          /\ UNCHANGED dtest
     ELSE /\ dtest' = [dtest EXCEPT ![r] = DMatrix(df[r])]
          /\ pc' = [pc EXCEPT ![r] = "predict"]
          /\ UNCHANGED exc
  /\ UNCHANGED <<shared, inputs, data, df, scores, shap_vals, base_value,
                 base, explanation, response>>

\* Line 75.
Predict(r) ==
  /\ pc[r] = "predict"
  /\ IF fault[r] = "predict"
     THEN /\ Raise(r, "XGBoostError")
          /\ UNCHANGED scores
     ELSE /\ scores' = [scores EXCEPT ![r] = BoosterPredict(dtest[r])]
          /\ pc' = [pc EXCEPT ![r] = "explain"]
          /\ UNCHANGED exc
  /\ UNCHANGED <<shared, inputs, data, df, dtest, shap_vals, base_value,
                 base, explanation, response>>

\* Variant of Explain: the call overwrites the expected value kept in the
\* shared explainer after reading it.
ExplainStoresExpectedValue(r) ==
  /\ pc[r] = "explain"
  /\ IF fault[r] = "shap_values"
     THEN /\ Raise(r, "ExplainerError")
          /\ UNCHANGED <<shap_vals, base_value, explainer>>
     ELSE /\ shap_vals' = [shap_vals EXCEPT ![r] = ShapValues(dtest[r])]
          /\ explainer' = [explainer EXCEPT !.expected_value =
                             [shape |-> "scalar", items |-> <<"0.0">>]]
          /\ base_value' = [base_value EXCEPT ![r] = <<explainer.expected_value>>]
          /\ pc' = [pc EXCEPT ![r] = "format"]
          /\ UNCHANGED exc
  /\ UNCHANGED <<model, EXPECTED_FEATURES, inputs, data, df, dtest, scores,
                 base, explanation, response>>

\* Lines 78-79.
Explain(r) ==
  /\ pc[r] = "explain"
  /\ IF fault[r] = "shap_values"
     THEN /\ Raise(r, "ExplainerError")
          /\ UNCHANGED <<shap_vals, base_value>>
     ELSE /\ shap_vals' = [shap_vals EXCEPT ![r] = ShapValues(dtest[r])]
          /\ base_value' = [base_value EXCEPT ![r] = <<explainer.expected_value>>]
          /\ pc' = [pc EXCEPT ![r] = "format"]
          /\ UNCHANGED exc
  /\ UNCHANGED <<shared, inputs, data, df, dtest, scores, base, explanation,
                 response>>

\* Lines 85-98: the first row's explanation.  An exception raised by line 92
\* is raised inside the inner handler of line 90 and leaves it.
FormatFirstRow(r) ==
  LET ev == base_value[r][1]
  IN IF FloatRaises(ev) /\ FirstRaises(ev)
     THEN /\ Raise(r, "IndexError")
          /\ UNCHANGED <<base, explanation>>
     ELSE /\ base' = [base EXCEPT ![r] = <<ev.items[1]>>]
          /\ explanation' = [explanation EXCEPT ![r] = ExplanationOf(shap_vals[r])]
          /\ pc' = [pc EXCEPT ![r] = "respond"]
          /\ UNCHANGED exc

\* Line 82 alone: no row, `base` stays unbound.
FormatNoRows(r) ==
  /\ explanation' = [explanation EXCEPT ![r] = <<>>]
  /\ pc' = [pc EXCEPT ![r] = "respond"]
  /\ UNCHANGED <<base, exc>>

\* Variant of FormatExplanation: shap_vals[0] is read without the guard of
\* line 83.
FormatExplanationUnguarded(r) ==
  /\ pc[r] = "format"
  /\ IF Len(shap_vals[r]) > 0
     THEN FormatFirstRow(r)
     ELSE /\ Raise(r, "IndexError")
          /\ UNCHANGED <<base, explanation>>
  /\ UNCHANGED <<shared, inputs, data, df, dtest, scores, shap_vals,
                 base_value, response>>

\* Lines 82-98.
FormatExplanation(r) ==
  /\ pc[r] = "format"
  /\ IF Len(shap_vals[r]) > 0 THEN FormatFirstRow(r) ELSE FormatNoRows(r)
  /\ UNCHANGED <<shared, inputs, data, df, dtest, scores, shap_vals,
                 base_value, response>>

\* Lines 101-109.
Respond(r) ==
  /\ pc[r] = "respond"
  /\ IF fault[r] = "jsonify"
     THEN /\ Raise(r, "TypeError: Object is not JSON serializable")
          /\ UNCHANGED response
     ELSE /\ response' = [response EXCEPT ![r] =
                            SuccessResponse(scores[r], base[r], explanation[r])]
          /\ pc' = [pc EXCEPT ![r] = "done"]
          /\ UNCHANGED exc
  /\ UNCHANGED <<shared, inputs, locals>>

\* Variant of Except: the error response also carries the scores computed
\* before the failure.
ExceptKeepsPredictions(r) ==
  /\ pc[r] = "except"
  /\ response' = [response EXCEPT ![r] =
                    [code |-> 400, error |-> exc[r], status |-> "error",
                     predictions |-> scores[r]]]
  /\ pc' = [pc EXCEPT ![r] = "done"]
  /\ UNCHANGED <<shared, inputs, locals, exc>>

\* Lines 111-112.
Except(r) ==
  /\ pc[r] = "except"
  /\ response' = [response EXCEPT ![r] = ErrorResponse(exc[r])]
  /\ pc' = [pc EXCEPT ![r] = "done"]
  /\ UNCHANGED <<shared, inputs, locals, exc>>

\* The response has been sent; the worker is free for the next request and
\* the locals of the call are gone.
Finish(r) ==
  /\ pc[r] = "done"
  /\ pc' = [pc EXCEPT ![r] = "idle"]
  /\ route' = [route EXCEPT ![r] = ""]
  /\ body' = [body EXCEPT ![r] = NoBody]
  /\ fault' = [fault EXCEPT ![r] = "none"]
  /\ data' = [data EXCEPT ![r] = NoBody]
  /\ df' = [df EXCEPT ![r] = Unbound]
  /\ dtest' = [dtest EXCEPT ![r] = Unbound]
  /\ scores' = [scores EXCEPT ![r] = Unbound]
  /\ shap_vals' = [shap_vals EXCEPT ![r] = Unbound]
  /\ base_value' = [base_value EXCEPT ![r] = Unbound]
  /\ base' = [base EXCEPT ![r] = Unbound]
  /\ explanation' = [explanation EXCEPT ![r] = Unbound]
  /\ exc' = [exc EXCEPT ![r] = NoException]
  /\ response' = [response EXCEPT ![r] = NoResponse]
  /\ UNCHANGED shared

\* A single worker serving one request after the other.
Next ==
  \/ Receive(1, Bodies, Faults)
  \/ Home(1)
  \/ CheckModel(1)
  \/ GetJson(1)
  \/ MakeFrame(1)
  \/ AlignColumns(1)
  \/ MakeDMatrix(1)
  \/ Predict(1)
  \/ Explain(1)
  \/ FormatExplanation(1)
  \/ Respond(1)
  \/ Except(1)
  \/ Finish(1)

Spec == Init /\ [][Next]_vars

\* Workers serving requests concurrently.
ConcBodies ==
  { Malformed,
    JsonObject([customer_id |-> "abc", P_2_last |-> "1"]),
    JsonArray(<<JsonObject([customer_id |-> "1", P_2_last |-> "1"]),
                JsonObject([customer_id |-> Absent, P_2_last |-> Absent])>>) }

ConcFaults == {"none", "shap_values"}

NextConc ==
  \E r \in Requests :
    \/ Receive(r, ConcBodies, ConcFaults)
    \/ Home(r)
    \/ CheckModel(r)
    \/ GetJson(r)
    \/ MakeFrame(r)
    \/ AlignColumns(r)
    \/ MakeDMatrix(r)
    \/ Predict(r)
    \/ Explain(r)
    \/ FormatExplanation(r)
    \/ Respond(r)
    \/ Except(r)
    \/ Finish(r)

SpecConc == Init /\ [][NextConc]_vars

-----------------------------------------------------------------------------
\* Notions the properties are stated with.  IsRecordBody, RecordsOf,
\* NumRecords and ExtraneousVariants describe request bodies; predict() has
\* no code for them.

Loaded == model # "None"

IsFeature(k) == InSeq(k, SelectedFeatures)

\* The body is an object, or an array of objects.
IsRecordBody(b) ==
  \/ b.kind = "object"
  \/ b.kind = "array" /\ \A i \in 1..Len(b.items) : b.items[i].kind = "object"

\* The objects of a record body, in order.
RecordsOf(b) ==
  IF b.kind = "object" THEN <<b.rec>>
  ELSE [i \in 1..Len(b.items) |-> b.items[i].rec]

\* The number of elements the body carries.
NumRecords(b) ==
  IF b.kind = "object" THEN 1
  ELSE IF b.kind = "array" THEN Len(b.items) ELSE 0

ExtraKeys == {k \in KeyPool : ~IsFeature(k)}

\* rec with its keys that are no feature names replaced by those of x.
WithExtras(rec, x) == [k \in KeyPool |-> IF k \in ExtraKeys THEN x[k] ELSE rec[k]]

\* All bodies that differ from the record body b only in keys that are no
\* feature names: added, removed or changed, independently in every object.
ExtraneousVariants(b) ==
  LET X == [ExtraKeys -> JsonValues \cup {Absent}]
  IN IF b.kind = "object"
     THEN {JsonObject(WithExtras(b.rec, x)) : x \in X}
     ELSE {JsonArray([i \in 1..Len(b.items) |->
                        JsonObject(WithExtras(b.items[i].rec, xs[i]))]) :
             xs \in [1..Len(b.items) -> X]}

\* The matrix lines 57-72 build from a parsed body.
NormalizedMatrix(b) ==
  DMatrix(SelectColumns(FillMissingColumns(DataFrame(WrapRecord(b))),
                        EXPECTED_FEATURES))

IsSuccess(resp) == resp # NoResponse /\ "predictions" \in DOMAIN resp
IsError(resp) == resp # NoResponse /\ "error" \in DOMAIN resp

-----------------------------------------------------------------------------
\* Properties

\* C1: while the model is not loaded, every POST /predict ends with the 500
\* response "Model not loaded"; the body is never parsed, no frame or matrix
\* is built and neither the booster nor the explainer is called.
C1_ModelNotLoaded ==
  model = "None" =>
    \A r \in Requests :
      /\ pc[r] \in {"idle", "check", "done"}
      /\ data[r] = NoBody /\ df[r] = Unbound /\ dtest[r] = Unbound
      /\ scores[r] = Unbound /\ shap_vals[r] = Unbound
      /\ exc[r] = NoException
      /\ pc[r] = "done" /\ route[r] = "/predict" => response[r] = ModelNotLoaded

C1_Witness ==
  /\ model = "None"
  /\ \E r \in Requests :
       /\ pc[r] = "done" /\ route[r] = "/predict"
       /\ body[r].kind = "array" /\ Len(body[r].items) = 2
       /\ response[r] = ModelNotLoaded

\* C2: for every object of the request and every feature name that is no key
\* of that object, the object's row of the matrix holds 0.0 in that column.
C2_MissingCellIsZero ==
  \A r \in Requests :
    dtest[r] # Unbound /\ IsRecordBody(body[r]) =>
      LET recs == RecordsOf(body[r])
      IN \A i \in 1..Len(recs) : \A j \in 1..Len(SelectedFeatures) :
           ~HasKey(recs[i], SelectedFeatures[j]) => dtest[r].rows[i][j] = "0.0"

\* C3: with the model loaded, a body that is not JSON, or is JSON but neither
\* an object nor an array of objects, ends with a 400 error response and
\* never with predictions.
C3_NonRecordBodyIsRejected ==
  \A r \in Requests :
    Loaded /\ route[r] = "/predict" /\ pc[r] = "done" /\ ~IsRecordBody(body[r]) =>
      /\ IsError(response[r])
      /\ ~IsSuccess(response[r])
      /\ response[r].code = 400

\* C4: with the model loaded, a request in which any step raised ends with
\* the one 400 response carrying the failure's description; no step runs
\* after the failure, and no response carries both an error and predictions.
C4_FailureIsOneError ==
  \A r \in Requests :
    Loaded /\ route[r] = "/predict" =>
      /\ pc[r] # "done" => response[r] = NoResponse
      /\ exc[r] # NoException => pc[r] \in {"except", "done"}
      /\ pc[r] = "done" =>
           /\ ~(IsError(response[r]) /\ IsSuccess(response[r]))
           /\ IF exc[r] # NoException
              THEN response[r] = ErrorResponse(exc[r])
              ELSE IsSuccess(response[r]) /\ response[r].status = "success"

C4_Witness ==
  \E r \in Requests :
    /\ Loaded /\ pc[r] = "done"
    /\ exc[r] = "ExplainerError"
    /\ scores[r] # Unbound /\ Len(scores[r]) = 2
    /\ response[r] = ErrorResponse("ExplainerError")

\* C5: with the model loaded and no library call failing, the body [] goes
\* through every step without an exception and ends with a success response
\* whose predictions are the empty array.
C5_EmptyArraySucceeds ==
  \A r \in Requests :
    Loaded /\ route[r] = "/predict" /\ body[r] = JsonArray(<<>>) /\ fault[r] = "none" =>
      /\ exc[r] = NoException
      /\ pc[r] # "except"
      /\ pc[r] = "done" =>
           /\ IsSuccess(response[r])
           /\ response[r].code = 200
           /\ response[r].status = "success"
           /\ response[r].predictions = <<>>

C5_Witness ==
  \E r \in Requests :
    /\ Loaded /\ pc[r] = "done" /\ body[r] = JsonArray(<<>>)
    /\ response[r].status = "success"

\* C6: the matrix passed to the booster has no column that is no feature
\* name, and it is the matrix every body that differs only in keys that are
\* no feature names is turned into; the predictions returned are those of
\* any such body.
C6_ExtraneousKeysIgnored ==
  \A r \in Requests :
    IsRecordBody(body[r]) =>
      /\ pc[r] = "predict" =>
           /\ \A j \in 1..Len(dtest[r].columns) : IsFeature(dtest[r].columns[j])
           /\ \A b2 \in ExtraneousVariants(body[r]) : NormalizedMatrix(b2) = dtest[r]
      /\ pc[r] = "done" /\ IsSuccess(response[r]) =>
           \A b2 \in ExtraneousVariants(body[r]) :
             response[r].predictions = BoosterPredict(NormalizedMatrix(b2))

C6_Witness ==
  \E r \in Requests :
    /\ pc[r] = "done" /\ IsSuccess(response[r])
    /\ body[r].kind = "array" /\ Len(body[r].items) = 2
    /\ body[r].items[1].rec["customer_id"] = "abc"
    /\ body[r].items[2].rec["customer_id"] = "1"
    /\ body[r].items[2].rec["P_2_last"] = "1"

\* C7: a success response for a matrix of N >= 1 rows carries N predictions
\* and 14 explanation entries, the i-th labelled with the i-th feature name
\* and holding the attribution of row 0 for column i.
C7_ExplanationIsRowZero ==
  \A r \in Requests :
    pc[r] = "done" /\ IsSuccess(response[r]) /\ Len(dtest[r].rows) >= 1 =>
      LET v == response[r].explanation.values
      IN /\ Len(response[r].predictions) = Len(dtest[r].rows)
         /\ Len(v) = 14
         /\ \A i \in 1..14 :
              /\ v[i].feature = SelectedFeatures[i]
              /\ v[i].value = Attribution(dtest[r].rows[1], i)

C7_Witness ==
  \E r \in Requests :
    /\ pc[r] = "done" /\ IsSuccess(response[r])
    /\ Len(dtest[r].rows) = 2
    /\ dtest[r].rows[1] # dtest[r].rows[2]

\* C8: base_value is the scalar coercion of the expected value when that
\* succeeds, else its first element when that succeeds, and when both fail
\* the request still succeeds with base_value 0.
C8_BaselineFallback ==
  \A r \in Requests :
    /\ pc[r] = "done" /\ route[r] = "/predict" /\ fault[r] = "none"
    /\ shap_vals[r] # Unbound
    => LET ev == explainer.expected_value
       IN /\ IsSuccess(response[r])
          /\ response[r].explanation.base_value =
               IF ~FloatRaises(ev) \/ ~FirstRaises(ev) THEN ev.items[1] ELSE "0"

\* C9: the matrix handed to the booster and to the explainer has exactly the
\* 14 feature names as columns, in their order, and one row per element of
\* the request.
C9_MatrixShape ==
  \A r \in Requests :
    pc[r] \in {"predict", "explain"} =>
      /\ dtest[r].columns = SelectedFeatures
      /\ Len(dtest[r].columns) = 14
      /\ Len(dtest[r].rows) = NumRecords(body[r])
      /\ \A i \in 1..Len(dtest[r].rows) : Len(dtest[r].rows[i]) = 14

C9_Witness ==
  \E r \in Requests :
    /\ pc[r] = "explain"
    /\ body[r].kind = "array" /\ Len(body[r].items) = 2
    /\ HasKey(body[r].items[1].rec, "customer_id")
    /\ HasKey(body[r].items[1].rec, "P_2_last")
    /\ ~HasKey(body[r].items[2].rec, "P_2_last")

\* C10: under every interleaving no step changes the model, the explainer or
\* the feature list, and two requests with the same route, body and failing
\* call get the same response, whatever was handled before or in between.
C10_RequestsAreIsolated ==
  /\ [][shared' = shared]_vars
  /\ [](\A r1 \in Requests : \A r2 \in Requests :
          /\ pc[r1] = "done" /\ pc[r2] = "done"
          /\ route[r1] = route[r2] /\ body[r1] = body[r2] /\ fault[r1] = fault[r2]
          => response[r1] = response[r2])

C10_Witness ==
  \E r1 \in Requests : \E r2 \in Requests :
    /\ r1 # r2
    /\ pc[r1] = "done" /\ IsSuccess(response[r1]) /\ Len(response[r1].predictions) = 2
    /\ pc[r2] = "explain" /\ body[r2] = body[r1]

====
